---- MODULE Spec2Model ----
(***************************************************************************)
(* ModuleFederationTypesPlugin.apply (src/src/plugin.ts): the gate that    *)
(* disables the plugin, the awaited download on startup, the compile on    *)
(* startup or on every afterEmit event, and the interval that downloads    *)
(* the remote types again.                                                 *)
(*                                                                         *)
(* An optional value (a field of this.options that may be undefined) is a  *)
(* sequence: << >> is undefined, <<v>> is the value v.  An absent options  *)
(* object reads as every field undefined (this.options?.x).                *)
(***************************************************************************)
EXTENDS Integers, Sequences, FiniteSets, TLC

\* ---- bounds of the model ----
MaxEmits == 2
MaxFires == 2
MaxTicks == 3
TickSeconds == 30

\* ---- constants imported from ./constants ----
DEFAULT_DOWNLOAD_TYPES_INTERVAL_IN_SECONDS == 60
CLOUDBEDS_DEPLOYMENT_ENV_WITH_DISABLED_REMOTE_TYPES_DOWNLOAD == "devbox"

VARIABLES
  options,              \* this.options
  DEPLOYMENT_ENV,       \* process.env.DEPLOYMENT_ENV
  remoteManifestUrls,   \* Object.values(getRemoteManifestUrls(this.options) || {})
  federationOptions,    \* the ModuleFederationPlugin among compiler.options.plugins
  mode,                 \* compiler.options.mode
  pc,                   \* position of apply(): "start", "awaitDownload", "returned"
  log,                  \* messages given to the logger, in order
  downloadCalls,        \* calls of downloadTypes
  inFlight,             \* download passes started and not yet settled
  settled,              \* download passes settled
  failed,               \* settled download passes whose outcome was a failure
  compileCalls,         \* calls of compileTypes
  rewriteCalls,         \* calls of rewritePathsWithExposedFederatedModules
  compileResults,       \* isSuccess of every compileTypes call, in order
  tapped,               \* compiler.hooks.afterEmit.tap has been called
  recompileIntervalId,  \* 0 is undefined
  timers,               \* the intervals alive in the runtime
  nextTimerId,          \* the id the next setInterval returns
  firstArmedAt,         \* time of the first setInterval, -1 before it
  lastFired,            \* id of the interval whose callback ran last, 0 if none
  now,                  \* seconds since apply() was called
  emits,                \* afterEmit events of the compiler
  fires                 \* interval callbacks run

cfgVars == <<options, DEPLOYMENT_ENV, remoteManifestUrls, federationOptions, mode>>
timerVars == <<recompileIntervalId, timers, nextTimerId, firstArmedAt>>
vars == <<options, DEPLOYMENT_ENV, remoteManifestUrls, federationOptions, mode,
          pc, log, downloadCalls, inFlight, settled, failed, compileCalls,
          rewriteCalls, compileResults, tapped, recompileIntervalId, timers,
          nextTimerId, firstArmedAt, lastFired, now, emits, fires>>

\* ---- input domains ----
OptBool == {<< >>, <<TRUE>>, <<FALSE>>}
OptInterval == {<< >>, <<-1>>, <<0>>, <<-5>>, <<30>>}
Urls == {[protocol |-> "http:", rest |-> "//x/manifest.json"],
         [protocol |-> "", rest |-> "not-a-url"]}
Names == {<< >>, <<"">>, <<"app1">>}

\* ---- JavaScript operators on optional values ----
Truthy(o) == o # << >> /\ o[1]
Coalesce(o, d) == IF o = << >> THEN d ELSE o[1]
OrNumber(o, d) == IF o = << >> \/ o[1] = 0 THEN d ELSE o[1]
Max(a, b) == IF a >= b THEN a ELSE b

\* ---- helpers/downloadTypes: a pass ends with an outcome, success or
\* ---- failure, and never raises ----
DownloadOutcomes == {TRUE, FALSE}

\* ---- helpers/validation ----
isValidUrl(u) == u.protocol \in {"http:", "https:"}
isEveryUrlValid(urls) == \A u \in urls : isValidUrl(u)

\* ---- lines 28-31 ----
isCompilationDisabled == Truthy(options.disableTypeCompilation)
\* variant: the environment marker is not consulted
isDownloadDisabledOptionOnly == Truthy(options.disableDownladingRemoteTypes)
isDownloadDisabled ==
  Coalesce(options.disableDownladingRemoteTypes,
           DEPLOYMENT_ENV = CLOUDBEDS_DEPLOYMENT_ENV_WITH_DISABLED_REMOTE_TYPES_DOWNLOAD)

\* ---- the three conditions that disable the plugin ----
\* variant: one valid URL is enough
urlsInvalidNoneValid ==
  remoteManifestUrls # {} /\ ~\E u \in remoteManifestUrls : isValidUrl(u)
urlsInvalid == ~isEveryUrlValid(remoteManifestUrls)
bothDisabled == isCompilationDisabled /\ isDownloadDisabled
\* variant: an empty name counts as a name
nameMissingUndefinedOnly ==
  ~federationOptions.found \/ federationOptions.name = << >>
nameMissing ==
  \/ ~federationOptions.found
  \/ federationOptions.name = << >>
  \/ federationOptions.name[1] = ""

exposes == federationOptions.exposes
remotes == federationOptions.remotes

\* ---- lines 79-82 ----
\* variant: the interval option -1 is not consulted
shouldSyncContinuouslyModeOnly == mode = "development"
shouldSyncContinuously ==
  /\ mode = "development"
  /\ \/ options.downloadTypesWhenIdleIntervalInSeconds = << >>
     \/ options.downloadTypesWhenIdleIntervalInSeconds[1] # -1
downloadTypesWhenIdleIntervalInSeconds ==
  OrNumber(options.downloadTypesWhenIdleIntervalInSeconds,
           DEFAULT_DOWNLOAD_TYPES_INTERVAL_IN_SECONDS)

\* the condition of lines 86 and 103
downloadWanted == remotes /\ ~Truthy(options.disableDownladingRemoteTypes)

\* ---- the runtime's timers (a delay below 1 ms is run as 1 ms) ----
\* variant: the previous interval is left alive
clearIntervalNoop(id, ts) == ts
clearInterval(id, ts) == {t \in ts : t.id # id}
setInterval(id, delayMs, ts) ==
  ts \cup {[id |-> id, asked |-> delayMs, armedAt |-> now,
            delay |-> Max(delayMs, 1),
            next |-> now * 1000 + Max(delayMs, 1)]}
Due(t) == now * 1000 >= t.next

\* ---- compileTypesHook, lines 62-69 ----
compileLog(isSuccess) ==
  IF isSuccess THEN << >>
  ELSE <<"warn: Failed to compile types for exposed modules.">>
\* variant: the rewrite pass does not depend on isSuccess
compileTypesHookAlwaysRewrites(l) ==
  \E isSuccess \in BOOLEAN :
    /\ compileCalls' = compileCalls + 1
    /\ rewriteCalls' = rewriteCalls + 1
    /\ compileResults' = Append(compileResults, isSuccess)
    /\ log' = l \o compileLog(isSuccess)
compileTypesHook(l) ==
  \E isSuccess \in BOOLEAN :
    /\ compileCalls' = compileCalls + 1
    /\ rewriteCalls' = rewriteCalls + (IF isSuccess THEN 1 ELSE 0)
    /\ compileResults' = Append(compileResults, isSuccess)
    /\ log' = l \o compileLog(isSuccess)

\* variant: the interval is armed once and not reset afterwards
compileTypesContinuouslyHookArmOnce(l) ==
  /\ IF downloadWanted /\ recompileIntervalId = 0
     THEN /\ timers' = setInterval(nextTimerId,
                                   1000 * downloadTypesWhenIdleIntervalInSeconds,
                                   clearInterval(recompileIntervalId, timers))
          /\ recompileIntervalId' = nextTimerId
          /\ nextTimerId' = nextTimerId + 1
          /\ firstArmedAt' = IF firstArmedAt < 0 THEN now ELSE firstArmedAt
     ELSE UNCHANGED <<timers, recompileIntervalId, nextTimerId, firstArmedAt>>
  /\ compileTypesHook(l)

\* ---- compileTypesContinuouslyHook, lines 84-101 ----
compileTypesContinuouslyHook(l) ==
  /\ IF downloadWanted
     THEN /\ timers' = setInterval(nextTimerId,
                                   1000 * downloadTypesWhenIdleIntervalInSeconds,
                                   clearInterval(recompileIntervalId, timers))
          /\ recompileIntervalId' = nextTimerId
          /\ nextTimerId' = nextTimerId + 1
          /\ firstArmedAt' = IF firstArmedAt < 0 THEN now ELSE firstArmedAt
     ELSE UNCHANGED <<timers, recompileIntervalId, nextTimerId, firstArmedAt>>
  /\ compileTypesHook(l)

\* variant: the continuous hook also runs once when it is tapped
compileOrTapImmediate(l) ==
  IF exposes /\ ~isCompilationDisabled
  THEN IF shouldSyncContinuously
       THEN /\ tapped' = TRUE
            /\ compileTypesContinuouslyHook(l)
       ELSE /\ compileTypesHook(l \o <<"log: Compile types on startup only">>)
            /\ UNCHANGED <<tapped, timerVars>>
  ELSE /\ log' = l
       /\ UNCHANGED <<compileCalls, rewriteCalls, compileResults, tapped, timerVars>>

\* variant: exposes is not consulted
compileOrTapExposesIgnored(l) ==
  IF ~isCompilationDisabled
  THEN IF shouldSyncContinuously
       THEN /\ tapped' = TRUE
            /\ log' = l
            /\ UNCHANGED <<compileCalls, rewriteCalls, compileResults, timerVars>>
       ELSE /\ compileTypesHook(l \o <<"log: Compile types on startup only">>)
            /\ UNCHANGED <<tapped, timerVars>>
  ELSE /\ log' = l
       /\ UNCHANGED <<compileCalls, rewriteCalls, compileResults, tapped, timerVars>>

\* ---- lines 108-118: what apply() does after the download on startup ----
compileOrTap(l) ==
  IF exposes /\ ~isCompilationDisabled
  THEN IF shouldSyncContinuously
       THEN /\ tapped' = TRUE
            /\ log' = l
            /\ UNCHANGED <<compileCalls, rewriteCalls, compileResults, timerVars>>
       ELSE /\ compileTypesHook(l \o <<"log: Compile types on startup only">>)
            /\ UNCHANGED <<tapped, timerVars>>
  ELSE /\ log' = l
       /\ UNCHANGED <<compileCalls, rewriteCalls, compileResults, tapped, timerVars>>

\* variant: the download on startup is started and not awaited
downloadOnStartupNoAwait ==
  /\ downloadCalls' = downloadCalls + 1
  /\ inFlight' = [inFlight EXCEPT !.startup = @ + 1]
  /\ compileOrTap(log \o <<"log: Downloading types on startup">>)
  /\ pc' = "returned"

\* ---- lines 103-106: the download on startup, awaited ----
downloadOnStartup ==
  /\ downloadCalls' = downloadCalls + 1
  /\ inFlight' = [inFlight EXCEPT !.startup = @ + 1]
  /\ log' = log \o <<"log: Downloading types on startup">>
  /\ pc' = "awaitDownload"
  /\ UNCHANGED <<compileCalls, rewriteCalls, compileResults, tapped, timerVars>>

\* ---- apply(), lines 24-106: up to the first suspension or the return ----
Disable(msgs) ==
  /\ log' = log \o msgs
  /\ pc' = "returned"
  /\ UNCHANGED <<downloadCalls, inFlight, compileCalls, rewriteCalls,
                 compileResults, tapped, timerVars>>

\* variant: the both-disabled rule is tried before the URL rule
applyBothDisabledFirst ==
  /\ pc = "start"
  /\ IF bothDisabled
     THEN Disable(<<"log: Plugin disabled as both type compilation and download features are turned off">>)
     ELSE IF urlsInvalid
     THEN Disable(<<"warn: One or more remote manifest URLs are invalid:",
                    "log: Plugin disabled">>)
     ELSE IF nameMissing
     THEN Disable(<<"log: Plugin disabled as ModuleFederationPlugin is not configured properly. The name option is missing.">>)
     ELSE IF downloadWanted
     THEN downloadOnStartup
     ELSE /\ compileOrTap(log)
          /\ pc' = "returned"
          /\ UNCHANGED <<downloadCalls, inFlight>>
  /\ UNCHANGED <<cfgVars, settled, failed, lastFired, now, emits, fires>>

apply ==
  /\ pc = "start"
  /\ IF urlsInvalid
     THEN Disable(<<"warn: One or more remote manifest URLs are invalid:",
                    "log: Plugin disabled">>)
     ELSE IF bothDisabled
     THEN Disable(<<"log: Plugin disabled as both type compilation and download features are turned off">>)
     ELSE IF nameMissing
     THEN Disable(<<"log: Plugin disabled as ModuleFederationPlugin is not configured properly. The name option is missing.">>)
     ELSE IF downloadWanted
     THEN downloadOnStartup
     ELSE /\ compileOrTap(log)
          /\ pc' = "returned"
          /\ UNCHANGED <<downloadCalls, inFlight>>
  /\ UNCHANGED <<cfgVars, settled, failed, lastFired, now, emits, fires>>

\* variant: apply() goes on only after a successful download
downloadSettlesOkOnly(kind, ok) ==
  /\ inFlight[kind] > 0
  /\ inFlight' = [inFlight EXCEPT ![kind] = @ - 1]
  /\ settled' = [settled EXCEPT ![kind] = @ + 1]
  /\ failed' = [failed EXCEPT ![kind] = @ + (IF ok THEN 0 ELSE 1)]
  /\ IF kind = "startup" /\ pc = "awaitDownload"
     THEN IF ok
          THEN /\ compileOrTap(log)
               /\ pc' = "returned"
          ELSE /\ pc' = "returned"
               /\ UNCHANGED <<log, compileCalls, rewriteCalls, compileResults,
                              tapped, timerVars>>
     ELSE UNCHANGED <<pc, log, compileCalls, rewriteCalls, compileResults,
                      tapped, timerVars>>
  /\ UNCHANGED <<cfgVars, downloadCalls, lastFired, now, emits, fires>>

\* ---- a download pass settles, with or without success; its outcome is
\* ---- not read; the one apply() awaits resumes it (line 105) ----
downloadSettles(kind, ok) ==
  /\ inFlight[kind] > 0
  /\ inFlight' = [inFlight EXCEPT ![kind] = @ - 1]
  /\ settled' = [settled EXCEPT ![kind] = @ + 1]
  /\ failed' = [failed EXCEPT ![kind] = @ + (IF ok THEN 0 ELSE 1)]
  /\ IF kind = "startup" /\ pc = "awaitDownload"
     THEN /\ compileOrTap(log)
          /\ pc' = "returned"
     ELSE UNCHANGED <<pc, log, compileCalls, rewriteCalls, compileResults,
                      tapped, timerVars>>
  /\ UNCHANGED <<cfgVars, downloadCalls, lastFired, now, emits, fires>>

\* ---- the compiler emits once the plugins are applied: the afterEmit
\* ---- callback, lines 110-113, runs when it is tapped ----
afterEmit ==
  /\ pc # "start"
  /\ emits < MaxEmits
  /\ emits' = emits + 1
  /\ IF tapped
     THEN compileTypesContinuouslyHook(log \o <<"log: Compiling types on afterEmit event">>)
     ELSE UNCHANGED <<log, compileCalls, rewriteCalls, compileResults,
                      timerVars>>
  /\ UNCHANGED <<cfgVars, pc, downloadCalls, inFlight, settled, failed, tapped,
                 lastFired, now, fires>>

\* variant: a new download pass takes the place of those in flight
intervalFiresCancelsPrevious(t) ==
  /\ t \in timers
  /\ Due(t)
  /\ fires < MaxFires
  /\ fires' = fires + 1
  /\ lastFired' = t.id
  /\ timers' = (timers \ {t}) \cup {[t EXCEPT !.next = @ + t.delay]}
  /\ log' = log \o <<"log: Downloading types every">>
  /\ downloadCalls' = downloadCalls + 1
  /\ inFlight' = [inFlight EXCEPT !.timer = 1]
  /\ UNCHANGED <<cfgVars, pc, settled, failed, compileCalls, rewriteCalls,
                 compileResults, tapped, recompileIntervalId, nextTimerId,
                 firstArmedAt, now, emits>>

\* ---- the interval's callback, lines 89-95 ----
intervalFires(t) ==
  /\ t \in timers
  /\ Due(t)
  /\ fires < MaxFires
  /\ fires' = fires + 1
  /\ lastFired' = t.id
  /\ timers' = (timers \ {t}) \cup {[t EXCEPT !.next = @ + t.delay]}
  /\ log' = log \o <<"log: Downloading types every">>
  /\ downloadCalls' = downloadCalls + 1
  /\ inFlight' = [inFlight EXCEPT !.timer = @ + 1]
  /\ UNCHANGED <<cfgVars, pc, settled, failed, compileCalls, rewriteCalls,
                 compileResults, tapped, recompileIntervalId, nextTimerId,
                 firstArmedAt, now, emits>>

\* ---- time passes; a callback that is due runs before time moves on ----
tick ==
  /\ pc # "start"
  /\ now < MaxTicks * TickSeconds
  /\ \A t \in timers : ~Due(t)
  /\ now' = now + TickSeconds
  /\ UNCHANGED <<cfgVars, pc, log, downloadCalls, inFlight, settled, failed,
                 compileCalls, rewriteCalls, compileResults, tapped, timerVars,
                 lastFired, emits, fires>>

Init ==
  /\ options \in [disableTypeCompilation : OptBool,
                  disableDownladingRemoteTypes : OptBool,
                  downloadTypesWhenIdleIntervalInSeconds : OptInterval]
  /\ DEPLOYMENT_ENV \in {"undefined",
                         CLOUDBEDS_DEPLOYMENT_ENV_WITH_DISABLED_REMOTE_TYPES_DOWNLOAD}
  /\ remoteManifestUrls \in SUBSET Urls
  /\ federationOptions \in [found : BOOLEAN, name : Names,
                            exposes : BOOLEAN, remotes : BOOLEAN]
  /\ ~federationOptions.found =>
       /\ federationOptions.name = << >>
       /\ ~federationOptions.exposes
       /\ ~federationOptions.remotes
  /\ mode \in {"development", "production"}
  /\ pc = "start"
  /\ log = << >>
  /\ downloadCalls = 0
  /\ inFlight = [startup |-> 0, timer |-> 0]
  /\ settled = [startup |-> 0, timer |-> 0]
  /\ failed = [startup |-> 0, timer |-> 0]
  /\ compileCalls = 0
  /\ rewriteCalls = 0
  /\ compileResults = << >>
  /\ tapped = FALSE
  /\ recompileIntervalId = 0
  /\ timers = {}
  /\ nextTimerId = 1
  /\ firstArmedAt = -1
  /\ lastFired = 0
  /\ now = 0
  /\ emits = 0
  /\ fires = 0

Next ==
  \/ apply
  \/ \E kind \in {"startup", "timer"}, ok \in DownloadOutcomes :
       downloadSettles(kind, ok)
  \/ afterEmit
  \/ \E t \in timers : intervalFires(t)
  \/ tick

Spec == Init /\ [][Next]_vars

(***************************************************************************)
(* Properties                                                              *)
(***************************************************************************)
\* the configuration, read off the inputs
anyUrlInvalid == \E u \in remoteManifestUrls : ~isValidUrl(u)
compilationOff == options.disableTypeCompilation = <<TRUE>>
effectiveDownloadOff ==
  IF options.disableDownladingRemoteTypes # << >>
  THEN options.disableDownladingRemoteTypes[1]
  ELSE DEPLOYMENT_ENV = CLOUDBEDS_DEPLOYMENT_ENV_WITH_DISABLED_REMOTE_TYPES_DOWNLOAD
nameAbsentOrEmpty ==
  ~federationOptions.found \/ federationOptions.name \in {<< >>, <<"">>}
continuousConfigured ==
  mode = "development"
    /\ options.downloadTypesWhenIdleIntervalInSeconds # <<-1>>
disableDownloadOption == options.disableDownladingRemoteTypes = <<TRUE>>
GateOpen ==
  ~anyUrlInvalid /\ ~(compilationOff /\ effectiveDownloadOff)
    /\ ~nameAbsentOrEmpty
Inactive ==
  /\ compileCalls = 0 /\ rewriteCalls = 0 /\ downloadCalls = 0
  /\ ~tapped /\ timers = {} /\ recompileIntervalId = 0 /\ fires = 0
  /\ pc \in {"start", "returned"}
intervalOption == options.downloadTypesWhenIdleIntervalInSeconds

\* C1: with remotes and exposes configured, download and compilation enabled,
\* no compile call is made while the download on startup is pending, and once
\* a compile call has been made the download on startup has settled.
C1Config ==
  GateOpen /\ remotes /\ exposes /\ ~compilationOff
    /\ ~disableDownloadOption
C1_DownloadBeforeCompile ==
  /\ inFlight.startup > 0 => compileCalls = 0
  /\ C1Config /\ pc # "start" =>
       /\ downloadCalls >= 1
       /\ inFlight.startup + settled.startup = 1
  /\ C1Config /\ compileCalls > 0 =>
       /\ settled.startup = 1
       /\ inFlight.startup = 0
C1_Witness ==
  C1Config /\ ~effectiveDownloadOff /\ compileCalls > 0 /\ settled.startup = 1

\* C2: at most one interval is alive and it is the one recompileIntervalId
\* names; every afterEmit event that re-arms leaves exactly one interval, a
\* fresh one; the callback that runs is always that of the current interval,
\* never of a replaced one.
C2_SingleTimer ==
  [][ /\ Cardinality(timers') <= 1
      /\ \A t \in timers' : t.id = recompileIntervalId'
      /\ (nextTimerId' > 1 => Cardinality(timers') = 1)
      /\ (emits' > emits /\ tapped /\ (remotes /\ ~disableDownloadOption) =>
            /\ recompileIntervalId' = nextTimerId
            /\ \A t \in timers : t.id # nextTimerId
            /\ \E t \in timers' :
                 /\ timers' = {t}
                 /\ t.id = nextTimerId
                 /\ t.next = now * 1000 + t.delay)
      /\ (fires' > fires => lastFired' = recompileIntervalId)
    ]_vars
C2_Witness == nextTimerId = 3 /\ fires = 2 /\ lastFired = 2 /\ Cardinality(timers) = 1

\* C3: with an invalid manifest URL, whatever the other settings, the run
\* makes no compile and no download call, taps no hook, arms no interval,
\* logs that the plugin is disabled and returns.
C3_InvalidUrlDisables ==
  anyUrlInvalid =>
    /\ Inactive
    /\ pc = "returned" =>
         log = <<"warn: One or more remote manifest URLs are invalid:",
                 "log: Plugin disabled">>
C3_Witness ==
  /\ anyUrlInvalid /\ \E u \in remoteManifestUrls : isValidUrl(u)
  /\ ~(compilationOff /\ effectiveDownloadOff) /\ ~nameAbsentOrEmpty /\ exposes /\ remotes
  /\ mode = "development" /\ pc = "returned" /\ emits >= 1 /\ now > 0

\* C4: with compilation disabled and download disabled (by the option or,
\* the option absent, by the environment marker) the run makes no compile and
\* no download call, taps no hook and arms no interval.
C4_BothDisabledInactive ==
  compilationOff /\ effectiveDownloadOff => Inactive
C4_Witness ==
  /\ compilationOff /\ effectiveDownloadOff
  /\ options.disableDownladingRemoteTypes = << >>
  /\ ~anyUrlInvalid /\ ~nameAbsentOrEmpty /\ exposes /\ remotes
  /\ mode = "development" /\ pc = "returned" /\ emits >= 1 /\ now > 0

\* C5: with no ModuleFederationPlugin among the plugins, or its name absent
\* or empty, the run makes no compile and no download call, taps no hook,
\* arms no interval, and returns.
C5_NameMissingInactive ==
  nameAbsentOrEmpty =>
    /\ Inactive
    /\ pc = "returned" => Len(log) >= 1 /\ \A i \in 1..Len(log) : log[i] # ""
C5_Witness ==
  /\ federationOptions.found /\ federationOptions.name = <<"">>
  /\ ~anyUrlInvalid /\ ~(compilationOff /\ effectiveDownloadOff) /\ exposes /\ remotes
  /\ mode = "development" /\ pc = "returned" /\ emits >= 1 /\ now > 0

\* C6 (as stated): when the gate is open, a download is made if and only if
\* remotes are present and the effective download switch (the option, else
\* the environment marker) is off; an interval is armed only then.
C6_EffectiveDownloadGate ==
  GateOpen /\ pc # "start" =>
    /\ (downloadCalls >= 1) <=> (remotes /\ ~effectiveDownloadOff)
    /\ timers # {} => remotes /\ ~effectiveDownloadOff

\* C7 (as stated): every run of the interval's callback makes one download
\* call and one compile call.
C7_FireDownloadsAndCompiles ==
  [][fires' > fires =>
       /\ downloadCalls' = downloadCalls + 1
       /\ compileCalls' = compileCalls + 1]_vars
\* C7 (amended): every run of the interval's callback makes exactly one
\* download call and no compile call; it is the callback of the only interval
\* alive, so that the callbacks run so far never exceed one per elapsed
\* interval, however many times the interval was re-armed.
C7_FireDownloadsOnce ==
  [][fires' > fires =>
       /\ downloadCalls' = downloadCalls + 1
       /\ inFlight'.timer = inFlight.timer + 1
       /\ compileCalls' = compileCalls
       /\ rewriteCalls' = rewriteCalls
       /\ Cardinality(timers) = 1
       /\ \A t \in timers : fires' * t.delay <= now' * 1000]_vars
C7_Witness ==
  nextTimerId = 3 /\ fires = 1 /\ lastFired = 2 /\ downloadCalls = 2
    /\ compileCalls = 2

\* C8 (as stated): when continuous mode applies, one compile call has been
\* made when apply() returns, before any afterEmit event.
C8Config ==
  /\ GateOpen /\ mode = "development"
  /\ intervalOption # <<-1>>
  /\ remotes /\ exposes /\ ~compilationOff
  /\ ~disableDownloadOption
C8_ImmediateCompile ==
  C8Config /\ pc = "returned" /\ emits = 0 => compileCalls = 1
\* C8 (amended): when continuous mode applies, apply() makes no compile call:
\* after the download on startup has settled it taps afterEmit and returns,
\* and compile calls are made only by afterEmit events, at most one each.
C8_NoStartupCompile ==
  C8Config =>
    /\ pc = "returned" => tapped
    /\ tapped => settled.startup = 1 /\ pc = "returned"
    /\ emits = 0 => compileCalls = 0
    /\ compileCalls <= emits
    /\ \A i \in 1..Len(log) : log[i] # "log: Compile types on startup only"
C8_Witness ==
  C8Config /\ ~effectiveDownloadOff /\ pc = "returned" /\ tapped /\ emits = 0
    /\ now > 0 /\ compileCalls = 0 /\ downloadCalls = 1

\* C9 (as stated): when continuous mode applies with the interval omitted,
\* the interval is armed when apply() returns.
C9Config == C8Config /\ intervalOption = << >>
C9_TimerArmedAtStartup == C9Config /\ pc = "returned" => timers # {}
\* C9 (amended): when continuous mode applies with the interval omitted, no
\* interval is armed by apply(); the first afterEmit event after the tap arms
\* it, with 60 seconds.  Until an afterEmit event there is no interval, the
\* download on startup stays the only download however long the wait, and no
\* compile call is made.
C9_TimerArmedByFirstEmit ==
  C9Config =>
    /\ emits = 0 =>
         /\ timers = {} /\ fires = 0 /\ compileCalls = 0
         /\ pc # "start" => downloadCalls = 1
    /\ \A t \in timers :
         t.delay = 1000 * DEFAULT_DOWNLOAD_TYPES_INTERVAL_IN_SECONDS
    /\ timers # {} => emits >= 1 /\ compileCalls >= 1
C9_Witness ==
  C9Config /\ ~effectiveDownloadOff /\ pc = "returned" /\ emits = 0
    /\ now >= DEFAULT_DOWNLOAD_TYPES_INTERVAL_IN_SECONDS
    /\ downloadCalls = 1 /\ compileCalls = 0

\* C10 (as stated): with compilation active and continuous mode with
\* download not applying (mode not development, or interval -1, or no
\* download because remotes are absent or download is disabled), exactly one
\* compile call is made in the run, no interval is armed and no afterEmit
\* event causes a compile.
compilationActive == GateOpen /\ exposes /\ ~compilationOff
C10_OneCompileUnlessContinuousWithDownload ==
  compilationActive
    /\ ~(continuousConfigured /\ remotes /\ ~effectiveDownloadOff) =>
      /\ pc = "returned" => compileCalls = 1
      /\ compileCalls <= 1
      /\ timers = {}
      /\ ~tapped
\* C10 (amended): with compilation active and the mode not development or
\* the interval option -1, exactly one compile call is made in the run, by
\* apply() after the download on startup if there is one; afterEmit is not
\* tapped, no interval is armed, no afterEmit event causes a compile.
C10_OneCompileWhenNotContinuous ==
  compilationActive /\ ~continuousConfigured =>
    /\ pc = "returned" => compileCalls = 1
    /\ pc # "returned" => compileCalls = 0
    /\ ~tapped /\ timers = {} /\ recompileIntervalId = 0 /\ fires = 0
    /\ downloadCalls <= 1
C10_Witness ==
  /\ compilationActive /\ mode = "development" /\ intervalOption = <<-1>>
  /\ downloadCalls = 1
  /\ pc = "returned" /\ emits >= 2 /\ now > 0 /\ compileCalls = 1

compileWarning == "warn: Failed to compile types for exposed modules."
Warnings(l) == Cardinality({i \in 1..Len(l) : l[i] = compileWarning})
C12_CompileFailureHandling ==
  [][ /\ compileCalls' # compileCalls =>
           /\ compileCalls' = compileCalls + 1
           /\ Len(compileResults') = compileCalls'
           /\ IF compileResults'[compileCalls']
              THEN /\ rewriteCalls' = rewriteCalls + 1
                   /\ Warnings(log') = Warnings(log)
              ELSE /\ rewriteCalls' = rewriteCalls
                   /\ Warnings(log') = Warnings(log) + 1
                   /\ pc' = "returned"
                   /\ tapped' = tapped
                   /\ (tapped /\ federationOptions.remotes
                         /\ ~disableDownloadOption => timers' # {})
      /\ compileCalls' = compileCalls =>
           /\ rewriteCalls' = rewriteCalls
           /\ Warnings(log') = Warnings(log)
      /\ tapped => tapped'
      /\ (tapped /\ emits' # emits) => compileCalls' = compileCalls + 1
    ]_vars
C12_Witness ==
  /\ compileResults = <<FALSE, TRUE>> /\ tapped /\ rewriteCalls = 1
  /\ Warnings(log) = 1 /\ timers # {}

\* C13: a download pass that ends in failure blocks nothing.  When the
\* download on startup settles, failed or not, apply() goes on to the compile
\* on startup or to the afterEmit tap and returns; when a download started by
\* the interval settles, failed or not, the interval and the tap stay as they
\* are; every afterEmit event on the tapped hook still makes a compile call.
C13_FailedDownloadDoesNotBlock ==
  [][ /\ (settled'.startup # settled.startup /\ pc = "awaitDownload") =>
           /\ pc' = "returned"
           /\ IF federationOptions.exposes /\ ~compilationOff
              THEN IF continuousConfigured
                   THEN tapped' /\ compileCalls' = compileCalls
                   ELSE ~tapped' /\ compileCalls' = compileCalls + 1
              ELSE ~tapped' /\ compileCalls' = compileCalls
      /\ settled'.timer # settled.timer =>
           /\ timers' = timers /\ recompileIntervalId' = recompileIntervalId
           /\ tapped' = tapped /\ compileCalls' = compileCalls
           /\ pc' = pc
      /\ (tapped /\ emits' # emits) => compileCalls' = compileCalls + 1
    ]_vars
C13_Witness ==
  /\ failed.startup = 1 /\ failed.timer = 1 /\ tapped /\ compileCalls = 2
  /\ lastFired = 1 /\ nextTimerId = 3 /\ timers # {}

\* C14 (as stated): with the environment marker set no download call is
\* made and no interval is armed, whatever the explicit option.
C14_EnvKillSwitch ==
  DEPLOYMENT_ENV = CLOUDBEDS_DEPLOYMENT_ENV_WITH_DISABLED_REMOTE_TYPES_DOWNLOAD
    => downloadCalls = 0 /\ timers = {} /\ fires = 0

\* C15: in continuous mode with download, every afterEmit event clears the
\* interval and starts a fresh one, due a full interval from now, and makes
\* exactly one compile call in the same step; it starts no download.  After
\* the download on startup a download call is made only by the interval's
\* callback.
C15_EmitRearmsThenCompiles ==
  [][ /\ (tapped /\ emits' # emits /\ federationOptions.remotes
            /\ ~disableDownloadOption) =>
           /\ \E t \in timers' :
                /\ timers' = {t}
                /\ t.id = nextTimerId /\ recompileIntervalId' = t.id
                /\ \A u \in timers : u.id # t.id
                /\ t.armedAt = now
                /\ t.next = now * 1000 + t.delay
           /\ compileCalls' = compileCalls + 1
           /\ Len(compileResults') = Len(compileResults) + 1
      /\ emits' # emits =>
           /\ downloadCalls' = downloadCalls
           /\ inFlight' = inFlight
           /\ compileCalls' <= compileCalls + 1
      /\ (downloadCalls' # downloadCalls /\ pc # "start") =>
           /\ fires' = fires + 1
           /\ emits' = emits
    ]_vars
C15_Witness ==
  /\ tapped /\ nextTimerId = 3 /\ compileCalls = 2 /\ downloadCalls = 1
  /\ \E t \in timers : t.armedAt > 0 /\ t.id = 2

\* C16 (as stated): the remote types are fetched again once the interval has
\* elapsed, whatever the build activity: in a run whose afterEmit events come
\* less than an interval apart, once a full interval and one more step of the
\* clock have passed since the interval was first armed, its callback has
\* run.
C16_FetchedWhateverTheBuildActivity ==
  \A t \in timers :
    (/\ t.delay > TickSeconds * 1000
     /\ t.armedAt * 1000 < firstArmedAt * 1000 + t.delay
     /\ now * 1000 >= firstArmedAt * 1000 + t.delay + TickSeconds * 1000)
      => fires >= 1
\* C16 (amended): every afterEmit event on the tapped hook restarts the
\* interval, so its callback runs only when a full interval has passed since
\* the last afterEmit event (or since its own last run), and it is then run
\* before time moves on.  While afterEmit events keep arriving with gaps
\* shorter than the interval no download is started by the interval.
C16_FetchedWhenIdle ==
  [][ /\ (tapped /\ emits' # emits /\ federationOptions.remotes
            /\ ~disableDownloadOption) =>
           \A t \in timers' :
             t.armedAt = now /\ t.next = now * 1000 + t.delay
      /\ fires' # fires =>
           \E t \in timers :
             /\ t.id = recompileIntervalId /\ lastFired' = t.id
             /\ now * 1000 >= t.armedAt * 1000 + t.delay
             /\ now * 1000 >= t.next
             /\ \E u \in timers' :
                  u.id = t.id /\ u.armedAt = t.armedAt
                    /\ u.next = t.next + t.delay
      /\ \A t \in timers' :
           now' * 1000 < t.armedAt * 1000 + t.delay =>
             t.next = t.armedAt * 1000 + t.delay
      /\ now' # now => \A t \in timers : now * 1000 < t.next
    ]_vars
C16_Witness ==
  /\ emits >= 2 /\ fires = 0 /\ firstArmedAt >= 0
  /\ \E t \in timers :
       /\ t.delay = 1000 * DEFAULT_DOWNLOAD_TYPES_INTERVAL_IN_SECONDS
       /\ t.armedAt > firstArmedAt
       /\ now * 1000 > firstArmedAt * 1000 + t.delay

\* C17 (as stated): an interval is armed with the option when it is present
\* and not zero and with 60 seconds otherwise, always with a positive value;
\* with the option -1 nothing is tapped and no interval is armed.
C17_IntervalResolution ==
  /\ \A t \in timers :
       /\ t.asked > 0
       /\ t.asked = 1000 * (IF intervalOption # << >> /\ intervalOption # <<0>>
                            THEN intervalOption[1]
                            ELSE DEFAULT_DOWNLOAD_TYPES_INTERVAL_IN_SECONDS)
  /\ intervalOption = <<-1>> => ~tapped /\ timers = {}

\* C18: the interval's callback starts a download pass and waits for none;
\* neither an afterEmit event nor a later callback cancels or settles a pass
\* in flight; a pass leaves only by settling, so every pass started is in
\* flight or settled.  Passes overlap each other and compile calls.
C18_NoCancellation ==
  [][ /\ fires' # fires =>
           /\ downloadCalls' = downloadCalls + 1
           /\ inFlight' = [inFlight EXCEPT !.timer = @ + 1]
           /\ settled' = settled
      /\ emits' # emits => inFlight' = inFlight /\ settled' = settled
      /\ \A k \in {"startup", "timer"} :
           inFlight'[k] < inFlight[k] =>
             /\ inFlight'[k] = inFlight[k] - 1
             /\ settled'[k] = settled[k] + 1
      /\ downloadCalls' = inFlight'.startup + inFlight'.timer
                            + settled'.startup + settled'.timer
    ]_vars
C18_Witness ==
  /\ inFlight.timer = 2 /\ settled.timer = 0 /\ lastFired = 1
  /\ nextTimerId = 3 /\ compileCalls = 2

\* C19: the rules are tried in the order invalid manifest URLs, both
\* features off, name missing, and the first that matches alone decides what
\* is logged: a disabled run logs exactly one "Plugin disabled" message, the
\* one of that rule (after the warning about the URLs for the first rule),
\* and nothing else; a run that matches no rule logs none of them.
disableDiagnostics ==
  {"log: Plugin disabled",
   "log: Plugin disabled as both type compilation and download features are turned off",
   "log: Plugin disabled as ModuleFederationPlugin is not configured properly. The name option is missing."}
urlWarning == "warn: One or more remote manifest URLs are invalid:"
Diagnostics(l) == {i \in 1..Len(l) : l[i] \in disableDiagnostics \cup {urlWarning}}
C19_FirstMatchingRuleLogs ==
  /\ pc = "start" => log = << >>
  /\ pc = "awaitDownload" => Diagnostics(log) = {}
  /\ pc = "returned" =>
       IF anyUrlInvalid
       THEN log = <<urlWarning, "log: Plugin disabled">>
       ELSE IF compilationOff /\ effectiveDownloadOff
       THEN log = <<"log: Plugin disabled as both type compilation and download features are turned off">>
       ELSE IF nameAbsentOrEmpty
       THEN log = <<"log: Plugin disabled as ModuleFederationPlugin is not configured properly. The name option is missing.">>
       ELSE Diagnostics(log) = {}
C19_Witness ==
  /\ anyUrlInvalid /\ compilationOff /\ effectiveDownloadOff
  /\ nameAbsentOrEmpty /\ pc = "returned"
  /\ log = <<urlWarning, "log: Plugin disabled">>
====
